---- MODULE Spec2Model ----
(***************************************************************************)
(* Bounce points and bounce integrals along a field line.                  *)
(*                                                                         *)
(* Numbers are exact integers on a grid.  A normalized coordinate y in     *)
(* [-1, 1] is the integer Y = One * y.  A coordinate along the field line  *)
(* is an integer in the same unit, the domain of one polynomial piece      *)
(* being (0, 2 * One).  eval1d returns Den times the value of the series,  *)
(* so that a midpoint of two grid roots is evaluated without rounding.     *)
(* The field lines are continuous piecewise parabolas and the levels are   *)
(* those at which every real root is on the even grid.  A complex root     *)
(* keeps a nonzero imaginary part; only its being nonzero is read.         *)
(***************************************************************************)
EXTENDS Integers, Sequences, FiniteSets, TLC

\* ---------------------------------------------------------------- bounds
MaxPieces == 3   \* most pieces (cuts of the field line) of a basis: M
MaxLevel == 2    \* levels 1/pitch lie within 4 * MaxLevel of |B| at the start
MaxWell == 2     \* largest num_well a caller asks for
MaxP == 2        \* largest pitch batch

\* ------------------------------------------------------------- arithmetic
Abs(n) == IF n < 0 THEN -n ELSE n

Sign(n) == IF n < 0 THEN -1 ELSE IF n > 0 THEN 1 ELSE 0

\* the least r with r * r >= n
RECURSIVE IsqrtFrom(_, _)
IsqrtFrom(n, r) == IF r * r >= n THEN r ELSE IsqrtFrom(n, r + 1)

Isqrt(n) == IsqrtFrom(n, 0)

IsSquare(n) == Isqrt(n) * Isqrt(n) = n

\* n / d for a divisor of either sign, d dividing n
Quot(n, d) == IF d > 0 THEN n \div d ELSE (-n) \div (-d)

\* the grid image of 1.0, the bound of the normalized domain [-1, 1]
One == 4

\* eval1d returns Den * f
Den == (One * One) \div 2

\* _eps = min(eps * 1e2, 1e-10): below the grid's resolution
Eps == 0

\* FourierBounce.domain = (0, 4 pi)
domain == <<0, 2 * One>>

\* ------------------------------------------------------ Chebyshev pieces
\* The series a0 T0 + a1 T1 + a2 T2 of the parabola a (Y - H)^2 + m in the
\* normalized coordinate y = Y / One.
ChebOf(a, H, m) ==
    << a * H * H + m + a * Den, -2 * a * H * One, a * Den >>

\* Den * (c0 + c1 y + c2 T2(y)) at y = Y / One
ChebVal(c, Y) == Den * c[1] + (Den \div One) * c[2] * Y + c[3] * (Y * Y - Den)

\* subtract k from the first coefficient
_subtract(c, k) == << c[1] - k, c[2], c[3] >>

\* The quadratic 2 c2 y^2 + c1 y + (c0 - c2) of a series with N = 3.
Disc(c) == c[2] * c[2] - 8 * c[3] * (c[1] - c[3])

\* The roots of the series are complex, or real and on the even grid.
ExactRoots(c) ==
    /\ c[3] # 0
    /\ Disc(c) >= 0 =>
          /\ IsSquare(Disc(c))
          /\ LET r == Isqrt(Disc(c))
                 q == 4 * Abs(c[3])
             IN  /\ (One * r) % q = 0
                 /\ (One * c[2]) % q = 0
                 /\ ((One * r) \div q) % 2 = 0
                 /\ ((One * Abs(c[2])) \div q) % 2 = 0

\* Roots of the series, in ascending order (by real part, then imaginary).
chebroots(c) ==
    LET A == 2 * c[3]
        r == Isqrt(Abs(Disc(c)))
        mid == Quot(One * (-c[2]), 2 * A)
        off == (One * r) \div (2 * Abs(A))
    IN  IF Disc(c) >= 0
        THEN << [re |-> mid - off, im |-> 0], [re |-> mid + off, im |-> 0] >>
        ELSE << [re |-> mid, im |-> -r], [re |-> mid, im |-> r] >>

\* A root within eps of the one before it is replaced by the sentinel.
_filter_distinct(y, sentinel, eps) ==
    [i \in 1..Len(y) |->
        LET prev == IF i = 1 THEN [re |-> sentinel, im |-> 0] ELSE y[i - 1]
            dre == y[i].re - prev.re
            dim == y[i].im - prev.im
        IN  IF dre * dre + dim * dim <= eps * eps
            THEN [re |-> sentinel, im |-> 0]
            ELSE y[i]]

\* (x + 1) / 2 * (b - a) + a, for x on the grid of the normalized domain
bijection_from_disc(x, a, b) == ((x + One) * (b - a)) \div (2 * One) + a

\* 2 (x - a) / (b - a) - 1, on the grid of the normalized domain
bijection_to_disc(x, a, b) == (2 * One * (x - a)) \div (b - a) - One

\* The sign of s = sum_n a_n n sin(n arccos y) = sin(arccos y) (a1 + 4 a2 y).
\* arccos(1.0) is 0 and s is 0 there.  arccos(-1.0) is the float nearest pi,
\* of which the sine is a positive 1.2e-16 and not 0: at y = -1 the sign of s
\* is the sign of a1 - 4 a2.
SinSign(c, Y) ==
    IF Y >= One THEN 0 ELSE Sign(One * c[2] + 4 * c[3] * Y)

\* One piece of an intersect that does not read the imaginary part of a root.
IntersectPiece_complex(c, k, eps) ==
    LET y0 == _filter_distinct(chebroots(_subtract(c, k)), -2 * One, eps)
    IN  [i \in 1..Len(y0) |->
            LET is_intersect == Abs(y0[i].re) <= One
                y == IF is_intersect THEN y0[i].re ELSE One
                s == SinSign(c, y)
            IN  [ y |-> bijection_from_disc(y, domain[1], domain[2]),
                  is_decreasing |-> s <= 0,
                  is_increasing |-> s >= 0,
                  is_intersect |-> is_intersect ]]

\* One piece of intersect: the N - 1 roots of piece c at level k.
IntersectPiece(c, k, eps) ==
    LET y0 == _filter_distinct(chebroots(_subtract(c, k)), -2 * One, eps)
    IN  [i \in 1..Len(y0) |->
            LET is_intersect == Abs(y0[i].im) <= eps /\ Abs(y0[i].re) <= One
                y == IF is_intersect THEN y0[i].re ELSE One
                s == SinSign(c, y)
            IN  [ y |-> bijection_from_disc(y, domain[1], domain[2]),
                  is_decreasing |-> s <= 0,
                  is_increasing |-> s >= 0,
                  is_intersect |-> is_intersect ]]

\* intersect(k): for every piece x the coordinates y_i with f(x, y_i) = k.
intersect(cheb, k, eps) == [x \in 1..Len(cheb) |-> IntersectPiece(cheb[x], k, eps)]

\* ------------------------------------------------------------ bounce points
\* Flatten batch of matrix to batch of vector.
RECURSIVE _flatten_matrix(_)
_flatten_matrix(y) ==
    IF y = << >> THEN << >> ELSE Head(y) \o _flatten_matrix(Tail(y))

\* Row x (from 0) of y is shifted by x * |domain|.
_isomorphism_to_C1(y) ==
    [x \in 1..Len(y) |->
        [i \in 1..Len(y[x]) |-> y[x][i] + (x - 1) * (domain[2] - domain[1])]]

\* (x_idx, y_val) with z = x_idx * |domain| + y_val
_isomorphism_to_C2(z) ==
    LET w == domain[2] - domain[1]
    IN  [x_idx |-> (z - domain[1]) \div w, y_val |-> ((z - domain[1]) % w) + domain[1]]

\* Indices of the true entries of mask, in order.
RECURSIVE flatnonzero(_, _)
flatnonzero(mask, i) ==
    IF i > Len(mask) THEN << >>
    ELSE (IF mask[i] THEN << i >> ELSE << >>) \o flatnonzero(mask, i + 1)

\* The first intersect is disqualified (as a right boundary).
_fix_inversion(is_intersect, is_increasing) ==
    LET idx == flatnonzero(is_intersect, 1)
    IN  [i \in 1..Len(is_intersect) |->
            IF idx # << >> /\ i = idx[1] THEN FALSE ELSE is_intersect[i]]

\* An optional integer is << >> (None) or << n >>.
None == << >>

Some(n) == << n >>

setdefault(val, default) == IF val = None THEN default ELSE val[1]

\* The first size elements of a where mask holds, padded with fill_value.
take_mask(a, mask, size, fill_value) ==
    LET idx == flatnonzero(mask, 1)
    IN  [j \in 1..setdefault(size, Len(a)) |->
            IF j <= Len(idx) THEN a[idx[j]] ELSE fill_value]

\* 1 / pitch, for a pitch given as a fraction num / den
PitchInv(pitch) == Quot(pitch.den, pitch.num)

\* The flattened intersects of every piece, each with its coordinate along
\* the field line.
FlatIntersect(cheb, k) ==
    LET sect == intersect(cheb, k, Eps)
        y == _flatten_matrix(
                 _isomorphism_to_C1([x \in 1..Len(sect) |->
                     [i \in 1..Len(sect[x]) |-> sect[x][i].y]]))
        flat == _flatten_matrix(sect)
    IN  [i \in 1..Len(flat) |->
            [ y |-> y[i],
              is_decreasing |-> flat[i].is_decreasing,
              is_increasing |-> flat[i].is_increasing,
              is_intersect |-> flat[i].is_intersect ]]

\* The k-th left boundary with the k-th right boundary, before the mask is
\* applied: bp1, bp2 hold the sentinel where there is none.
TakeBouncePoints(flat, num_well, sentinel) ==
    LET y == [i \in 1..Len(flat) |-> flat[i].y]
        is_increasing == [i \in 1..Len(flat) |-> flat[i].is_increasing]
        is_intersect == [i \in 1..Len(flat) |-> flat[i].is_intersect]
        fixed == _fix_inversion(is_intersect, is_increasing)
        is_bp1 == [i \in 1..Len(flat) |-> flat[i].is_decreasing /\ is_intersect[i]]
        is_bp2 == [i \in 1..Len(flat) |-> is_increasing[i] /\ fixed[i]]
    IN  [ bp1 |-> take_mask(y, is_bp1, num_well, sentinel),
          bp2 |-> take_mask(y, is_bp2, num_well, sentinel) ]

\* mask = (bp1 > sentinel) & (bp2 > sentinel)
WellMask(raw, sentinel) ==
    [j \in 1..Len(raw.bp1) |-> raw.bp1[j] > sentinel /\ raw.bp2[j] > sentinel]

\* The bounce points as take_mask returns them, with no mask applied.
MaskBouncePoints_unmasked(raw, sentinel) == [ bp1 |-> raw.bp1, bp2 |-> raw.bp2 ]

\* The bounce points with the sentinel, and not zero, outside the mask.
MaskBouncePoints_sentinel(raw, sentinel) ==
    LET mask == WellMask(raw, sentinel)
    IN  [ bp1 |-> [j \in 1..Len(raw.bp1) |-> IF mask[j] THEN raw.bp1[j] ELSE sentinel],
          bp2 |-> [j \in 1..Len(raw.bp2) |-> IF mask[j] THEN raw.bp2[j] ELSE sentinel] ]

\* The bounce points with a mask that looks at the left boundary only.
MaskBouncePoints_left(raw, sentinel) ==
    LET mask == [j \in 1..Len(raw.bp1) |-> raw.bp1[j] > sentinel]
    IN  [ bp1 |-> [j \in 1..Len(raw.bp1) |-> IF mask[j] THEN raw.bp1[j] ELSE 0],
          bp2 |-> [j \in 1..Len(raw.bp2) |-> IF mask[j] THEN raw.bp2[j] ELSE 0] ]

\* Set outside mask to the same value so the integration is over a set of
\* measure zero.
MaskBouncePoints(raw, sentinel) ==
    LET mask == WellMask(raw, sentinel)
    IN  [ bp1 |-> [j \in 1..Len(raw.bp1) |-> IF mask[j] THEN raw.bp1[j] ELSE 0],
          bp2 |-> [j \in 1..Len(raw.bp2) |-> IF mask[j] THEN raw.bp2[j] ELSE 0] ]

\* bounce_points for one pitch of the batch
BouncePointsOne(cheb, pitch, num_well) ==
    LET sentinel == domain[1] - 1
    IN  MaskBouncePoints(
            TakeBouncePoints(FlatIntersect(cheb, PitchInv(pitch)), num_well, sentinel),
            sentinel)

\* PiecewiseChebyshevBasis.bounce_points: bp1, bp2 of shape (P, num_well)
bounce_points(cheb, pitch, num_well) ==
    LET r == [p \in 1..Len(pitch) |-> BouncePointsOne(cheb, pitch[p], num_well)]
    IN  [ bp1 |-> [p \in 1..Len(pitch) |-> r[p].bp1],
          bp2 |-> [p \in 1..Len(pitch) |-> r[p].bp2] ]

\* ------------------------------------------------------------- evaluation
\* Chebyshev spectral resolution N
N(cheb) == Len(cheb[1])

\* What a float operation returns where it has no value.
NaN == -(2 ^ 20)

\* Den * f(z), z >= 0.  take_along_axis fills an index past the last series
\* with NaN.
eval1d(cheb, z) ==
    LET iso == _isomorphism_to_C2(z)
        y == bijection_to_disc(iso.y_val, domain[1], domain[2])
    IN  IF iso.x_idx + 1 \in 1..Len(cheb)
        THEN ChebVal(cheb[iso.x_idx + 1], y)
        ELSE NaN

\* print(jnp.column_stack([_bp1, _bp2])): the pairs with bp1 # bp2, in order
column_stack(bp1, bp2) ==
    LET idx == flatnonzero([j \in 1..Len(bp1) |-> bp1[j] - bp2[j] # 0], 1)
    IN  [i \in 1..Len(idx) |-> << bp1[idx[i]], bp2[idx[i]] >>]

\* A check of one pitch that does not compare a well with the next.
CheckOne_adjacent(cheb, bp1, bp2, pitch) ==
    LET W == Len(bp1)
        mask == [j \in 1..W |-> bp1[j] - bp2[j] # 0]
        err_1 == \E j \in 1..W : mask[j] /\ bp1[j] > bp2[j]
        B_m == [j \in 1..W |-> eval1d(cheb, (bp1[j] + bp2[j]) \div 2)]
        err_3 == \E j \in 1..W :
                    mask[j] /\ B_m[j] > Den * PitchInv(pitch) + Eps
    IN  IF err_1 THEN "Bounce points have an inversion."
        ELSE IF err_3 THEN "Detected |B| > 1/pitch in well."
        ELSE ""

\* check_bounce_points for pitch p of the batch: the first assertion that
\* fails, or "" when none does.  A pair with bp1 = bp2 is masked (NaN) and
\* compares false.
CheckOne(cheb, bp1, bp2, pitch) ==
    LET W == Len(bp1)
        mask == [j \in 1..W |-> bp1[j] - bp2[j] # 0]
        err_1 == \E j \in 1..W : mask[j] /\ bp1[j] > bp2[j]
        err_2 == \E j \in 1..(W - 1) :
                    mask[j] /\ mask[j + 1] /\ bp1[j + 1] < bp2[j]
        B_m == [j \in 1..W |-> eval1d(cheb, (bp1[j] + bp2[j]) \div 2)]
        err_3 == \E j \in 1..W :
                    mask[j] /\ B_m[j] > Den * PitchInv(pitch) + Eps
    IN  IF err_1 THEN "Bounce points have an inversion."
        ELSE IF err_2 THEN "Detected discontinuity."
        ELSE IF err_3 THEN "Detected |B| > 1/pitch in well."
        ELSE ""

\* The indices of the batch, in order, whose check fails.
RECURSIVE FailedChecks(_, _, _, _, _)
FailedChecks(cheb, bp1, bp2, pitch, p) ==
    IF p > Len(pitch) THEN << >>
    ELSE (IF CheckOne(cheb, bp1[p], bp2[p], pitch[p]) # "" THEN << p >> ELSE << >>)
         \o FailedChecks(cheb, bp1, bp2, pitch, p + 1)

\* PiecewiseChebyshevBasis.check_bounce_points: returns, or raises the
\* assertion of the first pitch of the batch that fails.
check_bounce_points(cheb, bp1, bp2, pitch) ==
    LET bad == FailedChecks(cheb, bp1, bp2, pitch, 1)
    IN  IF bad = << >>
        THEN [raised |-> "", msg |-> "", printed |-> << >>]
        ELSE [raised |-> "AssertionError",
              msg |-> CheckOne(cheb, bp1[bad[1]], bp2[bad[1]], pitch[bad[1]]),
              printed |-> column_stack(bp1[bad[1]], bp2[bad[1]])]

\* ------------------------------------------------------------- quadrature
\* The quadrature of the object, (x_k, w_k) with x on the grid of [-1, 1]:
\* the one point Gauss-Legendre rule, with no automorphism.
quad == << [x |-> 0, w |-> 2] >>

\* The integrands a caller passes: 1, and |B|.
Integrands == { "one", "B" }

\* integrand(B=B, pitch=pitch)
Integrand(name, B, pitch) == IF name = "one" THEN 1 ELSE B

\* dot(v, w) of floats: NaN if a term is NaN.
RECURSIVE SumFrom(_, _)
SumFrom(v, k) == IF k > Len(v) THEN 0 ELSE v[k] + SumFrom(v, k + 1)

dot(v, w) ==
    IF \E k \in 1..Len(v) : v[k] = NaN THEN NaN
    ELSE SumFrom([k \in 1..Len(v) |-> v[k] * w[k]], 1)

quad_w == [k \in 1..Len(quad) |-> quad[k].w]

\* FourierBounce._bounce_quadrature, with B^zeta = 1 along the field line:
\* dot(integrand(B=B(Q), pitch) / b_sup_z(Q), w), Q the quadrature points
\* between bp1 and bp2.
_bounce_quadrature(cheb, bp1, bp2, pitch, integrand) ==
    [p \in 1..Len(pitch) |->
        [j \in 1..Len(bp1[p]) |->
            dot([k \in 1..Len(quad) |->
                     Integrand(integrand,
                               eval1d(cheb, bijection_from_disc(
                                                quad[k].x, bp1[p][j], bp2[p][j])),
                               pitch[p])],
                quad_w)]]

\* bounce_integrate from the bounce points bp on: the check, the quadrature
\* and the assertion on the shape of the result.
IntegrateBetween(cheb, check, pitch, integrand, num_well, bp) ==
    LET chk == IF check THEN check_bounce_points(cheb, bp.bp1, bp.bp2, pitch)
               ELSE [raised |-> "", msg |-> "", printed |-> << >>]
        W == Len(bp.bp1[1])
    IN  IF chk.raised # "" THEN chk
        ELSE IF << Len(pitch), 1, W >>
                    # << Len(pitch), 1, setdefault(num_well, N(cheb) - 1) >>
        THEN [raised |-> "AssertionError", msg |-> "result.shape"]
        ELSE [raised |-> "", msg |-> "",
              result |-> _bounce_quadrature(cheb, bp.bp1, bp.bp2, pitch, integrand)]

\* FourierBounce.bounce_integrate.  The bounce points are computed once.
bounce_integrate(cheb, check, pitch, integrand, weight, num_well) ==
    IF weight # None THEN [raised |-> "NotImplementedError", msg |-> ""]
    ELSE CHOOSE r \in { IntegrateBetween(cheb, check, pitch, integrand, num_well, bp) :
                          bp \in { bounce_points(cheb, pitch, num_well) } } : TRUE

\* --------------------------------------------------------------- Bounce1D
\* The knots are equally spaced, one interval as long as one domain.
dz == domain[2] - domain[1]

\* self._zeta of a spline of Len(B) intervals
Knots(B) == [i \in 1..(Len(B) + 1) |-> (i - 1) * dz]

\* Coefficients of the derivative of c3 t^3 + c2 t^2 + c1 t + c0, stored
\* << c3, c2, c1, c0 >>.
polyder(c) == << 3 * c[1], 2 * c[2], c[3] >>

\* Evaluate the polynomial with coefficients c, highest degree first, at t.
RECURSIVE polyeval(_, _)
polyeval(c, t) ==
    IF Len(c) = 0 THEN 0
    ELSE c[Len(c)] + t * polyeval(SubSeq(c, 1, Len(c) - 1), t)

\* self._dB_dz = polyder_vec(self.B)
dB_dz(B) == [i \in 1..Len(B) |-> polyder(B[i])]

\* The real roots of c = k within the interval, in ascending order.
RECURSIVE RootsFrom(_, _, _)
RootsFrom(c, k, t) ==
    IF t > dz THEN << >>
    ELSE (IF polyeval(c, t) = k THEN << t >> ELSE << >>) \o RootsFrom(c, k, t + 1)

\* The intersects of one interval at level k: the accepted roots, then the
\* slots of the roots that are not accepted, Len(c) - 1 slots in all.
SplineIntersectPiece(c, dc, knot, k) ==
    LET r == RootsFrom(c, k, 0)
    IN  [i \in 1..(Len(c) - 1) |->
            IF i <= Len(r)
            THEN [ y |-> knot + r[i],
                   is_decreasing |-> Sign(polyeval(dc, r[i])) <= 0,
                   is_increasing |-> Sign(polyeval(dc, r[i])) >= 0,
                   is_intersect |-> TRUE ]
            ELSE [ y |-> knot - 1,
                   is_decreasing |-> TRUE,
                   is_increasing |-> TRUE,
                   is_intersect |-> FALSE ]]

\* The flattened intersects of every interval at level k
SplineIntersect(knots, B, dB, k) ==
    _flatten_matrix([i \in 1..Len(B) |->
                        SplineIntersectPiece(B[i], dB[i], knots[i], k)])

\* bounce_points(pitch_inv, knots, B, dB_dz, num_well) of the bounce
\* utilities: z1, z2 of shape (P, num_well), padded with zero.
spline_bounce_points(pitch_inv, knots, B, dB, num_well) ==
    LET sentinel == knots[1] - 1
        one(k) == MaskBouncePoints(
                      TakeBouncePoints(SplineIntersect(knots, B, dB, k),
                                       num_well, sentinel),
                      sentinel)
    IN  [ z1 |-> [p \in 1..Len(pitch_inv) |-> one(pitch_inv[p]).bp1],
          z2 |-> [p \in 1..Len(pitch_inv) |-> one(pitch_inv[p]).bp2] ]

\* Bounce1D.points
points(B, pitch_inv, num_well) ==
    spline_bounce_points(pitch_inv, Knots(B), B, dB_dz(B), num_well)

\* |B| of the spline at z, on the last interval at the last knot
SplineVal(B, z) ==
    LET i == IF z \div dz >= Len(B) THEN Len(B) ELSE (z \div dz) + 1
    IN  polyeval(B[i], z - Knots(B)[i])

\* One bounce integral: sum_k w_k ((z2 - z1) / 2) integrand(B(zeta_k)),
\* zeta_k the image of x_k between z1 and z2.
QuadratureOne(B, z1, z2, pitch_inv, integrand) ==
    dot([k \in 1..Len(quad) |->
             ((z2 - z1) \div 2)
             * Integrand(integrand,
                         SplineVal(B, bijection_from_disc(quad[k].x, z1, z2)),
                         pitch_inv)],
        quad_w)

\* The integrals of the pitches p, p + 1, ... one pitch at a time.
RECURSIVE QuadratureLoop(_, _, _, _, _, _)
QuadratureLoop(B, z1, z2, pitch_inv, integrand, p) ==
    IF p > Len(pitch_inv) THEN << >>
    ELSE << [j \in 1..Len(z1[p]) |->
                QuadratureOne(B, z1[p][j], z2[p][j], pitch_inv[p], integrand)] >>
         \o QuadratureLoop(B, z1, z2, pitch_inv, integrand, p + 1)

\* bounce_quadrature of the bounce utilities: every pitch at once when batch,
\* else a loop over the pitches.
bounce_quadrature(B, z1, z2, pitch_inv, integrand, batch) ==
    IF batch
    THEN [p \in 1..Len(pitch_inv) |->
             [j \in 1..Len(z1[p]) |->
                 QuadratureOne(B, z1[p][j], z2[p][j], pitch_inv[p], integrand)]]
    ELSE QuadratureLoop(B, z1, z2, pitch_inv, integrand, 1)

\* interp_to_argmin of a weight that is the same all along the field line
interp_to_argmin(weight, z1, z2) ==
    [p \in 1..Len(z1) |-> [j \in 1..Len(z1[p]) |-> weight[1]]]

\* An integrate that applies the weight only when batch is set.
integrate_weightbatch(B, pitch_inv, integrand, weight, num_well, batch) ==
    LET z == points(B, pitch_inv, num_well)
        q == bounce_quadrature(B, z.z1, z.z2, pitch_inv, integrand, batch)
        wt == interp_to_argmin(weight, z.z1, z.z2)
        result == IF weight # None /\ batch
                  THEN [p \in 1..Len(q) |->
                           [j \in 1..Len(q[p]) |-> q[p][j] * wt[p][j]]]
                  ELSE q
    IN  IF Len(result) # Len(pitch_inv)
        THEN [raised |-> "AssertionError", msg |-> "result.shape[0]"]
        ELSE IF Len(result[1]) # setdefault(num_well, Len(dB_dz(B)) * Len(dB_dz(B)[1]))
        THEN [raised |-> "AssertionError", msg |-> "result.shape[-1]"]
        ELSE [raised |-> "", msg |-> "", result |-> result]

\* Bounce1D.integrate, with check = False
integrate(B, pitch_inv, integrand, weight, num_well, batch) ==
    LET z == points(B, pitch_inv, num_well)
        q == bounce_quadrature(B, z.z1, z.z2, pitch_inv, integrand, batch)
        wt == interp_to_argmin(weight, z.z1, z.z2)
        result == IF weight # None
                  THEN [p \in 1..Len(q) |->
                           [j \in 1..Len(q[p]) |-> q[p][j] * wt[p][j]]]
                  ELSE q
    IN  IF Len(result) # Len(pitch_inv)
        THEN [raised |-> "AssertionError", msg |-> "result.shape[0]"]
        ELSE IF Len(result[1]) # setdefault(num_well, Len(dB_dz(B)) * Len(dB_dz(B)[1]))
        THEN [raised |-> "AssertionError", msg |-> "result.shape[-1]"]
        ELSE [raised |-> "", msg |-> "", result |-> result]

\* ----------------------------------------------------------------- inputs
\* |B| at the start of the field line
Bstart == 16 * (MaxLevel + 1)

\* A piece is the parabola a (Y - H)^2 + m over the normalized domain.
Shapes == { << a, H >> : a \in {-1, 1}, H \in { -(One \div 2), 0, One \div 2 } }

StartOf(pc1) == pc1.a * (One + pc1.H) * (One + pc1.H) + pc1.m

EndOf(pc1) == pc1.a * (One - pc1.H) * (One - pc1.H) + pc1.m

\* |B| > 0 all over the piece
Positive(pc1) == StartOf(pc1) > 0 /\ EndOf(pc1) > 0 /\ (pc1.a > 0 => pc1.m > 0)

\* Continuous field lines of n pieces: each piece starts where the last ended.
RECURSIVE Lines(_)
Lines(n) ==
    IF n = 0 THEN { << >> }
    ELSE UNION { { Append(l, pc1) :
                     pc1 \in { q \in { [a |-> sh[1], H |-> sh[2],
                                        m |-> (IF l = << >> THEN Bstart ELSE EndOf(l[Len(l)]))
                                              - sh[1] * (One + sh[2]) * (One + sh[2])]
                                       : sh \in Shapes } : Positive(q) } }
                 : l \in Lines(n - 1) }

\* The derivative is continuous too: the Hermite spline of the knot data.
IsC1(l) ==
    \A x \in 1..(Len(l) - 1) :
        l[x].a * (One - l[x].H) = -(l[x + 1].a * (One + l[x + 1].H))

\* The Chebyshev series of the pieces of a field line
Cheb(l) == [x \in 1..Len(l) |-> ChebOf(l[x].a, l[x].H, l[x].m)]

\* The local power series of the pieces, in t = Y + One, highest degree first
Spline(l) ==
    [x \in 1..Len(l) |->
        << 0, l[x].a, -2 * l[x].a * (One + l[x].H),
           l[x].a * (One + l[x].H) * (One + l[x].H) + l[x].m >>]

Levels == { Bstart + 4 * j : j \in (-MaxLevel)..MaxLevel }

\* pitch = 1 / level
Pitches == { [num |-> 1, den |-> k] : k \in Levels }

\* the pitches at which every real root of every piece of c is on the grid
ExactPitches(c) ==
    { p \in Pitches : \A x \in 1..Len(c) : ExactRoots(_subtract(c[x], PitchInv(p))) }

PitchBatches(c) == UNION { [1..n -> ExactPitches(c)] : n \in 1..MaxP }

\* The real roots of the quadratic c = k are on the even grid.
ExactSplineRoots(c, k) ==
    LET D == c[3] * c[3] - 4 * c[2] * (c[4] - k)
    IN  D >= 0 =>
          /\ IsSquare(D)
          /\ (Isqrt(D) - c[3]) % (4 * Abs(c[2])) = 0
          /\ (Isqrt(D) + c[3]) % (4 * Abs(c[2])) = 0

ExactPitchInvs(B1) ==
    { k \in Levels : \A x \in 1..Len(B1) : ExactSplineRoots(B1[x], k) }

PitchInvBatches(B1) == UNION { [1..n -> ExactPitchInvs(B1)] : n \in 1..MaxP }

NumWells == { None } \cup { Some(n) : n \in 1..MaxWell }

\* no weight, or one that is 2 all along the field line
Weights == { None, Some(2) }

\* ------------------------------------------------------ concurrent calls
MaxThreads == 2    \* threads that call the same Bounce1D

Threads == 1..MaxThreads

\* Bounce1D.integrate after z1, z2 = self.points(pitch_inv, num_well): the
\* quadrature between the points z, the weight, and the assertions.
integrate_from(B, z, pitch_inv, integrand, weight, num_well, batch) ==
    LET q == bounce_quadrature(B, z.z1, z.z2, pitch_inv, integrand, batch)
        wt == interp_to_argmin(weight, z.z1, z.z2)
        result == IF weight # None
                  THEN [p \in 1..Len(q) |->
                           [j \in 1..Len(q[p]) |-> q[p][j] * wt[p][j]]]
                  ELSE q
    IN  IF Len(result) # Len(pitch_inv)
        THEN [raised |-> "AssertionError", msg |-> "result.shape[0]"]
        ELSE IF Len(result[1]) # setdefault(num_well, Len(dB_dz(B)) * Len(dB_dz(B)[1]))
        THEN [raised |-> "AssertionError", msg |-> "result.shape[-1]"]
        ELSE [raised |-> "", msg |-> "", result |-> result]

\* The calls a thread makes: points or integrate of |B| at one pitch, for
\* every well or the first one.
ThreadCalls(B) ==
    { [op |-> op, pitch_inv |-> << k >>, integrand |-> "B", weight |-> None,
       num_well |-> num_well, batch |-> TRUE]
        : op \in { "points", "integrate" }, k \in ExactPitchInvs(B),
          num_well \in { None, Some(1) } }

\* ----------------------------------------------------------- construction
MaxKnots == 2    \* most knots of the grid a Bounce1D is made of: N

\* errorif(cond, err): the error raised, "" when none is
errorif(cond, err) == IF cond THEN err ELSE ""

\* warnif(cond): whether the warning is emitted
warnif(cond) == cond

\* jnp.any(a <= 0)
AnyNonPositive(a) == \E i \in 1..Len(a) : a[i] <= 0

\* self._zeta = grid.compress(grid.nodes[:, 2]): the knots of the grid
compress(zeta) == zeta

\* n / d of floats with n a multiple of d: NaN when d is 0
Div(n, d) == IF d = 0 \/ n = NaN THEN NaN ELSE Quot(n, d)

\* CubicHermiteSpline(x, y, dydx, check).c, one row << c3, c2, c1, c0 >> per
\* interval.  The knots are validated only when check is set; an interval of
\* no length divides by zero.
CubicHermiteSpline(x, y, dydx, check) ==
    IF check /\ \E i \in 1..(Len(x) - 1) : x[i + 1] - x[i] <= 0
    THEN [raised |-> "ValueError", c |-> << >>]
    ELSE [raised |-> "",
          c |-> [i \in 1..(Len(x) - 1) |->
                   LET h == x[i + 1] - x[i]
                       slope == Div(y[i + 1] - y[i], h)
                       t == IF slope = NaN THEN NaN
                            ELSE Div(dydx[i] + dydx[i + 1] - 2 * slope, h)
                   IN  IF t = NaN THEN << NaN, NaN, dydx[i], y[i] >>
                       ELSE << Div(t, h), Div(slope - dydx[i], h) - t,
                               dydx[i], y[i] >>]]

\* polyder_vec(c): the derivative of every row, NaN where the row is
polyder_vec(c) ==
    [i \in 1..Len(c) |->
        [k \in 1..(Len(c[i]) - 1) |->
            IF c[i][k] = NaN THEN NaN ELSE polyder(c[i])[k]]]

\* Bounce1D.__init__(grid, data, Bref, Lref, check, warn=...), for one field
\* line: what is raised, whether the warning is emitted, and the fields of
\* the object when there is one.
Bounce1D_init(zeta, data, Lref, Bref, check, warn) ==
    LET warned == warnif(check /\ warn /\ AnyNonPositive(data.B_sup_z))
        n == Len(data.B_sup_z)
        _data == [ B_sup_z |-> [i \in 1..n |-> Div(Abs(data.B_sup_z[i]) * Lref, Bref)],
                   B_sup_z_z |-> [i \in 1..n |->
                       Div(data.B_sup_z_z[i] * Sign(data.B_sup_z[i]) * Lref, Bref)],
                   absB |-> [i \in 1..n |-> Div(data.absB[i], Bref)],
                   absB_z |-> [i \in 1..n |-> Div(data.absB_z[i], Bref)] ]
        _zeta == compress(zeta)
        spline == CubicHermiteSpline(_zeta, _data.absB, _data.absB_z, check)
    IN  IF spline.raised # ""
        THEN [raised |-> spline.raised, warned |-> warned]
        ELSE [raised |-> "", warned |-> warned, _data |-> _data, _zeta |-> _zeta,
              B |-> spline.c, _dB_dz |-> polyder_vec(spline.c)]

\* compute.utils.bounce_integral, the splines of one field line: coef, the
\* splines of the knot intervals with the first one appended, and der.
bounce_integral_splines(zeta, absB, absB_z) ==
    LET spline == CubicHermiteSpline(zeta, absB, absB_z, TRUE)
        coef == Append(spline.c, spline.c[1])
    IN  IF spline.raised # "" THEN [raised |-> spline.raised]
        ELSE IF Len(coef) # Len(zeta) THEN [raised |-> "AssertionError"]
        ELSE [raised |-> "", coef |-> coef, der |-> polyder_vec(coef)]

\* FourierBounce.__init__(grid, data, ..., check, warn=...): the guard on the
\* grid, the warning, and the fields that come of B^zeta.
FourierBounce_init(sym, data, L_ref, check, warn) ==
    IF errorif(sym, "NotImplementedError") # ""
    THEN [raised |-> "NotImplementedError", warned |-> FALSE]
    ELSE [raised |-> "",
          warned |-> warnif(check /\ warn /\ AnyNonPositive(data.B_sup_z)),
          _b_sup_z |-> [i \in 1..Len(data.B_sup_z) |->
                           << Abs(data.B_sup_z[i]) * L_ref, data.absB[i] >>],
          _check |-> check]

\* FourierChebyshevBasis.__init__(f, domain, lobatto)
FourierChebyshevBasis_init(f, dom, lobatto) ==
    IF errorif(dom[1] > dom[2], "ValueError") # ""
    THEN [raised |-> "ValueError"]
    ELSE IF errorif(lobatto, "NotImplementedError") # ""
    THEN [raised |-> "NotImplementedError"]
    ELSE [raised |-> "", M |-> Len(f), N |-> Len(f[1]), domain |-> dom,
          lobatto |-> lobatto]

\* A PiecewiseChebyshevBasis made without a look at the domain.
PiecewiseChebyshevBasis_init_unchecked(c, dom) ==
    [raised |-> "", domain |-> dom, cheb |-> c]

\* PiecewiseChebyshevBasis.__init__(cheb, domain)
PiecewiseChebyshevBasis_init(c, dom) ==
    IF errorif(dom[1] > dom[2], "ValueError") # ""
    THEN [raised |-> "ValueError"]
    ELSE [raised |-> "", domain |-> dom, cheb |-> c]

\* The knots a grid may hold: increasing, repeated or decreasing.
KnotSeqs == UNION { [1..n -> 0..2] : n \in 2..MaxKnots }

\* Samples of B^zeta and of its derivative at n knots
BsupzSamples(n) == [1..n -> {-2, 0, 2}]

BsupzDerivatives(n) == [1..n -> {-2, 2}]

\* |B| and its derivative at n knots
AbsBSamples(n) == { [i \in 1..n |-> 8 + 8 * i], [i \in 1..n |-> 40 - 8 * i] }

\* (Lref, Bref)
Refs == { << 1, 1 >>, << 1, 2 >> }

Domains == { << a, b >> : a \in 0..2, b \in 0..2 }

\* ---------------------------------------------------------- compute.utils
\* bounce_integral(..., zeta_max=10 * jnp.pi, resolution=20).  The unit of zeta
\* is 10 pi / 38, so that the default knots are the even numbers 0..38.
zeta_max_default == 38

resolution_default == 20

\* The primitive of the polynomial coef, the constant left out: coef[i] over
\* n, n - 1, ..., 1.
polyint(coef) ==
    [i \in 1..Len(coef) |-> Quot(coef[i], Len(coef) + 1 - i)]

\* np.linspace(start, stop, num), num >= 2 and num - 1 dividing stop - start
linspace(start, stop, num) ==
    [i \in 1..num |-> start + Quot((i - 1) * (stop - start), num - 1)]

\* Where the roots of the splines of the fields below can lie.
RootGrid == (-(zeta_max_default + 1))..3

\* jnp.sort of three complex numbers: by real part, then by imaginary part.
SortRoots(r) ==
    CHOOSE t \in { << r[i], r[j], r[k] >> : i, j, k \in 1..3 } :
        /\ \E i, j, k \in 1..3 : { i, j, k } = 1..3 /\ t = << r[i], r[j], r[k] >>
        /\ \A m \in 1..2 :
              \/ t[m].re < t[m + 1].re
              \/ t[m].re = t[m + 1].re /\ t[m].im <= t[m + 1].im

\* The three roots of c1 x^3 + c2 x^2 + c3 x + c4 = shift, c1 # 0, in exact
\* arithmetic: a real root, and the two roots of the quotient.
cubic_poly_roots(coef, shift) ==
    LET d == coef[4] - shift
        r == CHOOSE x \in RootGrid :
                 coef[1] * x * x * x + coef[2] * x * x + coef[3] * x + d = 0
        q1 == coef[2] + coef[1] * r
        q0 == coef[3] + q1 * r
        D == q1 * q1 - 4 * coef[1] * q0
    IN  SortRoots(
            IF D >= 0
            THEN << [re |-> r, im |-> 0],
                    [re |-> Quot(-q1 - Isqrt(D), 2 * coef[1]), im |-> 0],
                    [re |-> Quot(-q1 + Isqrt(D), 2 * coef[1]), im |-> 0] >>
            ELSE << [re |-> r, im |-> 0],
                    [re |-> Quot(-q1, 2 * coef[1]),
                     im |-> -Quot(Isqrt(-D), 2 * Abs(coef[1]))],
                    [re |-> Quot(-q1, 2 * coef[1]),
                     im |-> Quot(Isqrt(-D), 2 * Abs(coef[1]))] >>)

\* CubicSpline(x, y).c for samples y that lie on a straight line: that line
\* on every interval.
CubicSpline(x, y) ==
    [i \in 1..(Len(x) - 1) |->
        << 0, 0, Quot(y[i + 1] - y[i], x[i + 1] - x[i]), y[i] >>]

\* bounce_integral(eq, rho, alpha, zeta_max, resolution) for one field line:
\* the knots, the data on them and the splines that the callable it returns
\* keeps.  eq.g is |B| along the field line, a cubic in zeta.
bounce_integral(eq, rho, alpha, zeta_max, resolution) ==
    LET zeta == linspace(0, setdefault(zeta_max, zeta_max_default),
                         setdefault(resolution, resolution_default))
        data == [ absB |-> [i \in 1..Len(zeta) |-> polyeval(eq.g, zeta[i])],
                  absB_z |-> [i \in 1..Len(zeta) |->
                                 polyeval(polyder(eq.g), zeta[i])] ]
        sp == bounce_integral_splines(zeta, data.absB, data.absB_z)
    IN  IF sp.raised # "" THEN [raised |-> sp.raised]
        ELSE [raised |-> "", eq |-> eq, zeta |-> zeta, data |-> data,
              coef |-> sp.coef, der |-> sp.der]

\* bounce_average(eq, rho, alpha, resolution=20): bi, the callable of which
\* it returns the quotient bi(name) / bi("1")
bounce_average(eq, rho, alpha, resolution) ==
    [ bi |-> bounce_integral(eq, rho, alpha,
                             Some(setdefault(resolution, resolution_default)), None) ]

\* The samples on the knots of the quantity name over
\* B^zeta sqrt(1 - lambda_pitch |B|), the denominator taken as 1 / 12.
Quantity(name, zeta) ==
    [i \in 1..Len(zeta) |-> IF name = "1" THEN 12 ELSE 12 * zeta[i]]

\* One spline of _bounce_integral: the roots bp of coef = k, and for each
\* pair of consecutive roots whether it is kept and the integral between.
BounceIntegralPiece(coef, der, y, k) ==
    LET bp == cubic_poly_roots(coef, k)
        real_bp == [j \in 1..3 |-> bp[j].re]
        b_norm_z == [j \in 1..3 |-> polyeval(der, real_bp[j])]
        Y == [j \in 1..3 |-> polyeval(polyint(y), real_bp[j])]
    IN  [j \in 1..2 |->
            [ is_well |-> b_norm_z[j] <= 0 /\ b_norm_z[j + 1] >= 0,
              is_real |-> bp[j].im = 0 /\ bp[j + 1].im = 0,
              integral |-> Y[j + 1] - Y[j] ]]

\* _bounce_integral(name, lambda_pitch) of the callable bi, k = 1 / lambda_pitch:
\* F = (is_well & is_real) * integral, of shape (zeta.size, 2)
_bounce_integral(bi, name, k) ==
    LET c == CubicSpline(bi.zeta, Quantity(name, bi.zeta))
        y == Append(c, c[1])
    IN  [i \in 1..Len(bi.coef) |->
            LET w == BounceIntegralPiece(bi.coef[i], bi.der[i], y[i], k)
            IN  [j \in 1..2 |->
                    IF w[j].is_well /\ w[j].is_real THEN w[j].integral ELSE 0]]

\* |B| along the field line: a (zeta - r1)(zeta - r2)(zeta - r3) + Bstart, or
\* a (zeta - r)((zeta - p)^2 + 1) + Bstart.
UtilFields ==
    { [g |-> << a, -a * (r1 + r2 + r3), a * (r1 * r2 + r1 * r3 + r2 * r3),
                Bstart - a * r1 * r2 * r3 >>]
        : a \in {-1, 1}, r1 \in {-1, 0, 1}, r2 \in {1, 2}, r3 \in {2, 3} }
    \cup
    { [g |-> << a, -a * (2 * p + r), a * (p * p + 1 + 2 * p * r),
                Bstart - a * r * (p * p + 1) >>]
        : a \in {-1, 1}, r \in {0, 1, 3}, p \in {1, 2} }

\* zeta_max and resolution, given or not, with knots on the grid
UtilArgs ==
    { << zm, res >> \in ({ None, Some(2), Some(4) } \X { None, Some(2), Some(3) }) :
        setdefault(zm, zeta_max_default) % (setdefault(res, resolution_default) - 1) = 0 }

\* |B| of the field eq is positive on the knots of these arguments.
PositiveField(eq, zeta_max, resolution) ==
    \A i \in 1..setdefault(resolution, resolution_default) :
        polyeval(eq.g, linspace(0, setdefault(zeta_max, zeta_max_default),
                                setdefault(resolution, resolution_default))[i]) > 0

\* The resolutions asked of bounce_average for which the knots are on the grid
UtilResolutions == { Some(19), Some(38) }

Names == { "1", "zeta" }

\* polynomials whose primitive has integer coefficients, and limits
PolyCoefs == [1..4 -> {-12, 0, 12}]

Limits == 0..2

\* ------------------------------------------------------------------ state
VARIABLES
    cheb,   \* FourierBounce.B.cheb: the M series of |B|, shape (M, N)
    check,  \* FourierBounce._check
    B,      \* Bounce1D.B: the local splines of |B|, shape (N - 1, 4)
    pc,     \* "idle", or "done" after a call returned or raised
    call,   \* the call made and its arguments
    ret,    \* what the call returned
    prev,   \* what the same call returned the time before
    threads \* of each thread: its position, its call, its locals z1, z2, its result

vars == << cheb, check, B, pc, call, ret, prev, threads >>

NoCall == [op |-> "none"]

\* The object is a FourierBounce, or a Bounce1D.
Init ==
    /\ \/ /\ cheb \in { Cheb(l) : l \in UNION { Lines(n) : n \in 1..MaxPieces } }
          /\ check \in BOOLEAN
          /\ B = << >>
       \/ /\ B \in { Spline(l) : l \in { q \in UNION { Lines(n) : n \in 1..MaxPieces } : IsC1(q) } }
          /\ cheb = << >>
          /\ check = FALSE
    /\ pc = "idle"
    /\ call = NoCall
    /\ ret = NoCall
    /\ prev = NoCall
    /\ threads = << >>

\* bp1, bp2 = self.B.bounce_points(pitch, num_well)
CallBouncePoints ==
    /\ pc = "idle"
    /\ cheb # << >>
    /\ \E pitch \in PitchBatches(cheb), num_well \in NumWells :
        /\ call' = [op |-> "bounce_points", pitch |-> pitch, num_well |-> num_well]
        /\ ret' = bounce_points(cheb, pitch, num_well)
    /\ pc' = "done"
    /\ UNCHANGED << cheb, check, B, prev, threads >>

\* self.B.check_bounce_points(bp1, bp2, pitch) on the points just returned
CallCheckBouncePoints ==
    /\ pc = "done"
    /\ call.op = "bounce_points"
    /\ call' = [op |-> "check_bounce_points", pitch |-> call.pitch,
                num_well |-> call.num_well, bp1 |-> ret.bp1, bp2 |-> ret.bp2]
    /\ ret' = check_bounce_points(cheb, ret.bp1, ret.bp2, call.pitch)
    /\ UNCHANGED << cheb, check, B, pc, prev, threads >>

\* self.bounce_integrate(pitch, integrand, f, weight, num_well)
CallBounceIntegrate ==
    /\ pc = "idle"
    /\ cheb # << >>
    /\ \E pitch \in PitchBatches(cheb), integrand \in Integrands,
          weight \in Weights, num_well \in NumWells :
        /\ call' = [op |-> "bounce_integrate", pitch |-> pitch,
                    integrand |-> integrand, weight |-> weight, num_well |-> num_well]
        /\ ret' = bounce_integrate(cheb, check, pitch, integrand, weight, num_well)
    /\ pc' = "done"
    /\ UNCHANGED << cheb, check, B, prev, threads >>

\* z1, z2 = self.points(pitch_inv, num_well)
CallPoints ==
    /\ pc = "idle"
    /\ B # << >>
    /\ \E pitch_inv \in PitchInvBatches(B), num_well \in NumWells :
        /\ call' = [op |-> "points", pitch_inv |-> pitch_inv, num_well |-> num_well]
        /\ ret' = points(B, pitch_inv, num_well)
    /\ pc' = "done"
    /\ UNCHANGED << cheb, check, B, prev, threads >>

\* A second call of points that returns the wells in the opposite order.
RepeatPoints_reordered ==
    /\ pc = "done"
    /\ call.op = "points"
    /\ prev = NoCall
    /\ prev' = ret
    /\ \E z \in { points(B, call.pitch_inv, call.num_well) } :
        ret' = [ z1 |-> [p \in 1..Len(z.z1) |->
                            [j \in 1..Len(z.z1[p]) |-> z.z1[p][Len(z.z1[p]) + 1 - j]]],
                 z2 |-> [p \in 1..Len(z.z2) |->
                            [j \in 1..Len(z.z2[p]) |-> z.z2[p][Len(z.z2[p]) + 1 - j]]] ]
    /\ UNCHANGED << cheb, check, B, pc, call, threads >>

\* the same call of points once more
RepeatPoints ==
    /\ pc = "done"
    /\ call.op = "points"
    /\ prev = NoCall
    /\ prev' = ret
    /\ ret' = points(B, call.pitch_inv, call.num_well)
    /\ UNCHANGED << cheb, check, B, pc, call, threads >>

\* integrate with the level subtracted from the splines in place, and left so.
CallIntegrate_inplace ==
    /\ pc = "idle"
    /\ B # << >>
    /\ \E pitch_inv \in PitchInvBatches(B), integrand \in Integrands,
          weight \in Weights, num_well \in NumWells, batch \in BOOLEAN :
        /\ call' = [op |-> "integrate", pitch_inv |-> pitch_inv,
                    integrand |-> integrand, weight |-> weight,
                    num_well |-> num_well, batch |-> batch]
        /\ ret' = integrate(B, pitch_inv, integrand, weight, num_well, batch)
        /\ B' = [i \in 1..Len(B) |-> [B[i] EXCEPT ![4] = @ - pitch_inv[1]]]
    /\ pc' = "done"
    /\ UNCHANGED << cheb, check, prev, threads >>

\* self.integrate(pitch_inv, integrand, f, weight, num_well, method, batch)
CallIntegrate ==
    /\ pc = "idle"
    /\ B # << >>
    /\ \E pitch_inv \in PitchInvBatches(B), integrand \in Integrands,
          weight \in Weights, num_well \in NumWells, batch \in BOOLEAN :
        /\ call' = [op |-> "integrate", pitch_inv |-> pitch_inv,
                    integrand |-> integrand, weight |-> weight,
                    num_well |-> num_well, batch |-> batch]
        /\ ret' = integrate(B, pitch_inv, integrand, weight, num_well, batch)
    /\ pc' = "done"
    /\ UNCHANGED << cheb, check, B, prev, threads >>

\* the caller drops the result
Return ==
    /\ pc = "done"
    /\ pc' = "idle"
    /\ call' = NoCall
    /\ ret' = NoCall
    /\ prev' = NoCall
    /\ UNCHANGED << cheb, check, B, threads >>

Next ==
    \/ CallBouncePoints
    \/ CallCheckBouncePoints
    \/ CallBounceIntegrate
    \/ CallPoints
    \/ RepeatPoints
    \/ CallIntegrate
    \/ Return

Spec == Init /\ [][Next]_vars


\* ------------------------------------------------- the constructors' runs
\* No object yet.
InitConstruct ==
    /\ cheb = << >>
    /\ check = FALSE
    /\ B = << >>
    /\ pc = "idle"
    /\ call = NoCall
    /\ ret = NoCall
    /\ prev = NoCall
    /\ threads = << >>

\* Bounce1D(grid, data, Bref=, Lref=, check=, warn=)
ConstructBounce1D ==
    /\ pc = "idle"
    /\ \E zeta \in KnotSeqs, chk \in BOOLEAN, warn \in BOOLEAN, ref \in Refs :
        \E b \in BsupzSamples(Len(zeta)), bz \in BsupzDerivatives(Len(zeta)),
           a \in AbsBSamples(Len(zeta)) :
            LET data == [ B_sup_z |-> b, B_sup_z_z |-> bz, absB |-> a,
                          absB_z |-> [i \in 1..Len(zeta) |-> 0] ]
            IN  /\ call' = [op |-> "Bounce1D", zeta |-> zeta, data |-> data,
                            Lref |-> ref[1], Bref |-> ref[2],
                            check |-> chk, warn |-> warn]
                /\ ret' = Bounce1D_init(zeta, data, ref[1], ref[2], chk, warn)
    /\ pc' = "done"
    /\ UNCHANGED << cheb, check, B, prev, threads >>

\* FourierBounce(grid, data, ..., L_ref=, check=, warn=)
ConstructFourierBounce ==
    /\ pc = "idle"
    /\ \E sym \in BOOLEAN, chk \in BOOLEAN, warn \in BOOLEAN, L_ref \in {1, 2} :
        \E b \in BsupzSamples(MaxKnots), a \in AbsBSamples(MaxKnots) :
            LET data == [ B_sup_z |-> b, absB |-> a ]
            IN  /\ call' = [op |-> "FourierBounce", sym |-> sym, data |-> data,
                            L_ref |-> L_ref, check |-> chk, warn |-> warn]
                /\ ret' = FourierBounce_init(sym, data, L_ref, chk, warn)
    /\ pc' = "done"
    /\ UNCHANGED << cheb, check, B, prev, threads >>

\* FourierChebyshevBasis(f, domain, lobatto)
ConstructFourierChebyshevBasis ==
    /\ pc = "idle"
    /\ \E f \in { << a >> : a \in AbsBSamples(MaxKnots) }, dom \in Domains,
          lobatto \in BOOLEAN :
        /\ call' = [op |-> "FourierChebyshevBasis", f |-> f, domain |-> dom,
                    lobatto |-> lobatto]
        /\ ret' = FourierChebyshevBasis_init(f, dom, lobatto)
    /\ pc' = "done"
    /\ UNCHANGED << cheb, check, B, prev, threads >>

\* PiecewiseChebyshevBasis(cheb, domain)
ConstructPiecewiseChebyshevBasis ==
    /\ pc = "idle"
    /\ \E c \in { Cheb(l) : l \in Lines(1) }, dom \in Domains :
        /\ call' = [op |-> "PiecewiseChebyshevBasis", cheb |-> c, domain |-> dom]
        /\ ret' = PiecewiseChebyshevBasis_init(c, dom)
    /\ pc' = "done"
    /\ UNCHANGED << cheb, check, B, prev, threads >>

\* bi = compute.utils.bounce_integral(eq, rho, alpha, zeta_max, resolution)
ConstructBounceIntegral ==
    /\ pc = "idle"
    /\ \E eq \in UtilFields, args \in UtilArgs :
        /\ PositiveField(eq, args[1], args[2])
        /\ call' = [op |-> "bounce_integral", eq |-> eq,
                    zeta_max |-> args[1], resolution |-> args[2]]
        /\ ret' = bounce_integral(eq, None, None, args[1], args[2])
    /\ pc' = "done"
    /\ UNCHANGED << cheb, check, B, prev, threads >>

NextConstruct ==
    \/ ConstructBounce1D
    \/ ConstructBounceIntegral
    \/ ConstructFourierBounce
    \/ ConstructFourierChebyshevBasis
    \/ ConstructPiecewiseChebyshevBasis
    \/ Return

SpecConstruct == InitConstruct /\ [][NextConstruct]_vars

\* ------------------------------------------- the calls of compute.utils
\* ba = compute.utils.bounce_average(eq, rho, alpha, resolution)
CallBounceAverage ==
    /\ pc = "idle"
    /\ \E eq \in UtilFields, resolution \in UtilResolutions :
        /\ PositiveField(eq, resolution, None)
        /\ call' = [op |-> "bounce_average", eq |-> eq, resolution |-> resolution]
        /\ ret' = bounce_average(eq, None, None, resolution)
    /\ pc' = "done"
    /\ UNCHANGED << cheb, check, B, prev, threads >>

\* F = bi(name, lambda_pitch) of the callable just returned, at the pitch
\* 1 / Bstart
CallBounceIntegral ==
    /\ pc = "done"
    /\ call.op = "bounce_integral"
    /\ ret.raised = ""
    /\ \E name \in Names :
        /\ call' = [op |-> "_bounce_integral", bi |-> ret, name |-> name,
                    k |-> Bstart]
        /\ ret' = [raised |-> "", F |-> _bounce_integral(ret, name, Bstart)]
    /\ UNCHANGED << cheb, check, B, pc, prev, threads >>

\* Y = polyeval(polyint(y), bp); integral = Y[1:] - Y[:-1], for one spline y
\* and two points a, b
IntegrateSpline ==
    /\ pc = "idle"
    /\ \E y \in PolyCoefs, a \in Limits, b \in Limits :
        /\ call' = [op |-> "integral", y |-> y, a |-> a, b |-> b]
        /\ ret' = [raised |-> "",
                   integral |-> polyeval(polyint(y), b) - polyeval(polyint(y), a)]
    /\ pc' = "done"
    /\ UNCHANGED << cheb, check, B, prev, threads >>

NextUtils ==
    \/ ConstructBounceIntegral
    \/ CallBounceAverage
    \/ CallBounceIntegral
    \/ IntegrateSpline
    \/ Return

SpecUtils == InitConstruct /\ [][NextUtils]_vars

\* ------------------------------------------- threads on the same Bounce1D
Idle == [pc |-> "idle", call |-> NoCall, z |-> NoCall, ret |-> NoCall,
         overlap |-> FALSE]

\* A Bounce1D, and no thread in a call.
InitThreads ==
    /\ B \in { Spline(l) : l \in { q \in UNION { Lines(n) : n \in 1..MaxPieces } : IsC1(q) } }
    /\ cheb = << >>
    /\ check = FALSE
    /\ pc = "idle"
    /\ call = NoCall
    /\ ret = NoCall
    /\ prev = NoCall
    /\ threads = [t \in Threads |-> Idle]

\* thread t enters self.points(...) or self.integrate(...)
ThreadCall(t) ==
    /\ threads[t].pc = "idle"
    /\ \E c \in ThreadCalls(B) :
        threads' = [threads EXCEPT ![t] = [Idle EXCEPT !.pc = "called", !.call = c]]
    /\ UNCHANGED << cheb, check, B, pc, call, ret, prev >>

\* The bounce points kept where every thread in a call reads them.
ThreadPoints_shared(t) ==
    /\ threads[t].pc = "called"
    /\ \E z \in { points(B, threads[t].call.pitch_inv, threads[t].call.num_well) } :
        threads' = [u \in Threads |->
            IF u = t
            THEN [threads[t] EXCEPT
                    !.z = z,
                    !.pc = IF threads[t].call.op = "points" THEN "done" ELSE "quadrature",
                    !.ret = IF threads[t].call.op = "points" THEN z ELSE NoCall]
            ELSE IF threads[u].pc \in { "called", "quadrature" }
            THEN [threads[u] EXCEPT !.overlap = TRUE,
                                    !.z = IF threads[u].pc = "quadrature" THEN z ELSE @]
            ELSE threads[u]]
    /\ UNCHANGED << cheb, check, B, pc, call, ret, prev >>

\* thread t: bounce_points(pitch_inv, self._zeta, self.B, self._dB_dz, num_well)
\* into its locals z1, z2; points returns them.  A thread that is in a call
\* meanwhile has been overlapped.
ThreadPoints(t) ==
    /\ threads[t].pc = "called"
    /\ \E z \in { points(B, threads[t].call.pitch_inv, threads[t].call.num_well) } :
        threads' = [u \in Threads |->
            IF u = t
            THEN [threads[t] EXCEPT
                    !.z = z,
                    !.pc = IF threads[t].call.op = "points" THEN "done" ELSE "quadrature",
                    !.ret = IF threads[t].call.op = "points" THEN z ELSE NoCall]
            ELSE IF threads[u].pc \in { "called", "quadrature" }
            THEN [threads[u] EXCEPT !.overlap = TRUE]
            ELSE threads[u]]
    /\ UNCHANGED << cheb, check, B, pc, call, ret, prev >>

\* thread t: the rest of integrate, from its locals z1, z2
ThreadQuadrature(t) ==
    /\ threads[t].pc = "quadrature"
    /\ threads' = [threads EXCEPT
          ![t].pc = "done",
          ![t].ret = integrate_from(B, threads[t].z, threads[t].call.pitch_inv,
                                    threads[t].call.integrand, threads[t].call.weight,
                                    threads[t].call.num_well, threads[t].call.batch)]
    /\ UNCHANGED << cheb, check, B, pc, call, ret, prev >>

\* thread t drops the result
ThreadReturn(t) ==
    /\ threads[t].pc = "done"
    /\ threads' = [threads EXCEPT ![t] = Idle]
    /\ UNCHANGED << cheb, check, B, pc, call, ret, prev >>

NextThreads ==
    \E t \in Threads :
        \/ ThreadCall(t)
        \/ ThreadPoints(t)
        \/ ThreadQuadrature(t)
        \/ ThreadReturn(t)

SpecThreads == InitThreads /\ [][NextThreads]_vars

\* ------------------------------------------------------------------ claims
Done(op) == pc = "done" /\ call.op = op

Sentinel == domain[1] - 1

Min(S) == CHOOSE m \in S : \A n \in S : m <= n

\* What take_mask returned for pitch p of a bounce_points call, and its mask.
RawBP(p) ==
    TakeBouncePoints(FlatIntersect(cheb, PitchInv(call.pitch[p])),
                     call.num_well, Sentinel)

ValidBP(p) == WellMask(RawBP(p), Sentinel)

\* The same for pitch p of a points call of the Bounce1D.
RawZ(p) ==
    TakeBouncePoints(SplineIntersect(Knots(B), B, dB_dz(B), call.pitch_inv[p]),
                     call.num_well, Knots(B)[1] - 1)

ValidZ(p) == WellMask(RawZ(p), Knots(B)[1] - 1)

\* The number of wells of pitch p when every well is asked for.
WellCount(c, pitch) ==
    Cardinality({ j \in 1..(Len(c) * (N(c) - 1)) :
        WellMask(TakeBouncePoints(FlatIntersect(c, PitchInv(pitch)), None, Sentinel),
                 Sentinel)[j] })

\* Den * min |B| along the field line of the series
MinB(c) == Min({ ChebVal(c[x], Y) : x \in 1..Len(c), Y \in (-One)..One })

\* min |B| along the field line of the splines
MinSplineB(B1) == Min({ polyeval(B1[i], t) : i \in 1..Len(B1), t \in 0..dz })

\* C1: every valid pair that bounce_points or points returns has z1 <= z2.
C1_ValidPairsOrdered ==
    /\ Done("bounce_points") =>
        \A p \in 1..Len(call.pitch) : \A j \in 1..Len(ret.bp1[p]) :
            ValidBP(p)[j] => ret.bp1[p][j] <= ret.bp2[p][j]
    /\ Done("points") =>
        \A p \in 1..Len(call.pitch_inv) : \A j \in 1..Len(ret.z1[p]) :
            ValidZ(p)[j] => ret.z1[p][j] <= ret.z2[p][j]

\* C2: consecutive valid wells do not overlap: bp1 of well k + 1 is at or
\* after bp2 of well k, also when a root on the seam of two pieces is found
\* in both.
C2_WellsDoNotOverlap ==
    Done("bounce_points") =>
        \A p \in 1..Len(call.pitch) : \A j \in 1..(Len(ret.bp1[p]) - 1) :
            ValidBP(p)[j] /\ ValidBP(p)[j + 1] => ret.bp1[p][j + 1] >= ret.bp2[p][j]

\* C3: |B| at the midpoint of every valid pair is at most 1 / pitch + eps.
C3_MidpointBelowLevel ==
    /\ Done("bounce_points") =>
        \A p \in 1..Len(call.pitch) : \A j \in 1..Len(ret.bp1[p]) :
            ValidBP(p)[j] =>
                eval1d(cheb, (ret.bp1[p][j] + ret.bp2[p][j]) \div 2)
                    <= Den * PitchInv(call.pitch[p]) + Eps
    /\ Done("points") =>
        \A p \in 1..Len(call.pitch_inv) : \A j \in 1..Len(ret.z1[p]) :
            ValidZ(p)[j] =>
                SplineVal(B, (ret.z1[p][j] + ret.z2[p][j]) \div 2)
                    <= call.pitch_inv[p] + Eps

\* C4: at every padded (masked-out) well index the returned z1 and z2 are
\* equal, also when only one of the two exists at that index.
C4_PaddedPairsEqual ==
    /\ Done("bounce_points") =>
        \A p \in 1..Len(call.pitch) : \A j \in 1..Len(ret.bp1[p]) :
            ~ValidBP(p)[j] => ret.bp1[p][j] = ret.bp2[p][j]
    /\ Done("points") =>
        \A p \in 1..Len(call.pitch_inv) : \A j \in 1..Len(ret.z1[p]) :
            ~ValidZ(p)[j] => ret.z1[p][j] = ret.z2[p][j]

\* bounce_points returned, and at some index there was an entry, past the
\* start of the domain, and no exit.
C4_Witness ==
    /\ Done("bounce_points")
    /\ \E p \in 1..Len(call.pitch) : \E j \in 1..Len(ret.bp1[p]) :
        /\ RawBP(p).bp1[j] > 0
        /\ RawBP(p).bp2[j] = Sentinel
        /\ ret.bp1[p][j] = ret.bp2[p][j]

\* C5: for two well counts at or above the number W of wells the first W
\* integrals are the same, and every integral at a padded index is exactly 0.
C5_PaddingCorrect ==
    /\ Done("bounce_integrate") /\ ret.raised = "" =>
        /\ \A p \in 1..Len(call.pitch) : \A j \in 1..Len(ret.result[p]) :
              ~ValidBP(p)[j] => ret.result[p][j] = 0
        /\ \A n2 \in NumWells :
              LET other == bounce_integrate(cheb, check, call.pitch, call.integrand,
                                            call.weight, n2)
              IN  other.raised = "" =>
                    \A p \in 1..Len(call.pitch) :
                        LET W == WellCount(cheb, call.pitch[p])
                        IN  W <= Len(ret.result[p]) /\ W <= Len(other.result[p]) =>
                              SubSeq(ret.result[p], 1, W) = SubSeq(other.result[p], 1, W)
    /\ Done("integrate") /\ ret.raised = "" =>
        \A p \in 1..Len(call.pitch_inv) : \A j \in 1..Len(ret.result[p]) :
            ~ValidZ(p)[j] => ret.result[p][j] = 0

\* C6: every padded position holds 0 in both arrays, the coordinate of the
\* start of the domain: the padding is told by z1 = z2, not by a value that
\* no coordinate takes.
C6_PaddingIsZero ==
    /\ Done("bounce_points") =>
        \A p \in 1..Len(call.pitch) : \A j \in 1..Len(ret.bp1[p]) :
            ~ValidBP(p)[j] => ret.bp1[p][j] = 0 /\ ret.bp2[p][j] = 0
    /\ Done("points") =>
        \A p \in 1..Len(call.pitch_inv) : \A j \in 1..Len(ret.z1[p]) :
            ~ValidZ(p)[j] => ret.z1[p][j] = 0 /\ ret.z2[p][j] = 0

\* bounce_points returned a valid pair that starts at the coordinate 0, next
\* to a padded index.
C6_Witness ==
    /\ Done("bounce_points")
    /\ \E p \in 1..Len(call.pitch) : \E j, j2 \in 1..Len(ret.bp1[p]) :
        /\ ValidBP(p)[j]
        /\ ret.bp1[p][j] = 0
        /\ ret.bp1[p][j] < ret.bp2[p][j]
        /\ ~ValidBP(p)[j2]

\* C6 as the specification words it: every padded position holds a value
\* that is no coordinate of the field line.
C6_PaddingIsSentinel ==
    /\ Done("bounce_points") =>
        \A p \in 1..Len(call.pitch) : \A j \in 1..Len(ret.bp1[p]) :
            ~ValidBP(p)[j] =>
                /\ ret.bp1[p][j] \notin domain[1]..(Len(cheb) * dz)
                /\ ret.bp2[p][j] \notin domain[1]..(Len(cheb) * dz)
    /\ Done("points") =>
        \A p \in 1..Len(call.pitch_inv) : \A j \in 1..Len(ret.z1[p]) :
            ~ValidZ(p)[j] =>
                /\ ret.z1[p][j] \notin Knots(B)[1]..Knots(B)[Len(B) + 1]
                /\ ret.z2[p][j] \notin Knots(B)[1]..Knots(B)[Len(B) + 1]

C8_ShapeAssertionPasses ==
    Done("integrate") \/ Done("bounce_integrate") =>
        ~(/\ ret.raised = "AssertionError"
          /\ ret.msg \in { "result.shape", "result.shape[0]", "result.shape[-1]" })

StrictlyIncreasing(x) == \A i \in 1..(Len(x) - 1) : x[i] < x[i + 1]

\* A constructor returned an object.
Constructed == ret.raised = ""

\* C11: the construction of a Bounce1D raises, and makes no object, whenever
\* the knots are not strictly increasing, whatever check is.
C11_NonIncreasingKnotsRejected ==
    Done("Bounce1D") /\ ~StrictlyIncreasing(call.zeta) =>
        ret.raised # "" /\ "B" \notin DOMAIN ret

\* C12: the construction of a Bounce1D raises when B^zeta is positive at one
\* knot of a field line and negative at another.
C12_SignFlipRejected ==
    Done("Bounce1D")
    /\ (\E i, j \in 1..Len(call.data.B_sup_z) :
            call.data.B_sup_z[i] > 0 /\ call.data.B_sup_z[j] < 0)
    => ret.raised # ""

\* C13: whenever a sample of B^zeta is not positive, the construction emits
\* the warning and completes, whether check is set or not.
C13_WarnsOnNonPositive ==
    /\ Done("Bounce1D") /\ call.warn /\ StrictlyIncreasing(call.zeta)
       /\ AnyNonPositive(call.data.B_sup_z)
       => ret.warned /\ Constructed
    /\ Done("FourierBounce") /\ call.warn /\ ~call.sym
       /\ AnyNonPositive(call.data.B_sup_z)
       => ret.warned /\ Constructed

\* C14: after the construction the stored B^zeta is positive at every knot,
\* and its stored derivative is the supplied one (times Lref / Bref) negated
\* where the supplied B^zeta was negative and as it was where it was positive,
\* samples equal to zero included.
C14_StoredBsupzPositive ==
    Done("Bounce1D") /\ Constructed =>
        \A i \in 1..Len(call.data.B_sup_z) :
            LET dz_scaled == Div(call.data.B_sup_z_z[i] * call.Lref, call.Bref)
            IN  /\ ret._data.B_sup_z[i] > 0
                /\ call.data.B_sup_z[i] < 0 => ret._data.B_sup_z_z[i] = -dz_scaled
                /\ call.data.B_sup_z[i] > 0 => ret._data.B_sup_z_z[i] = dz_scaled
                /\ ret._data.B_sup_z_z[i] \in { dz_scaled, -dz_scaled }

\* C15: a FourierChebyshevBasis or a PiecewiseChebyshevBasis made with
\* domain[0] > domain[1] raises and makes no object.
C15_InvertedDomainRejected ==
    (Done("FourierChebyshevBasis") \/ Done("PiecewiseChebyshevBasis"))
    /\ call.domain[1] > call.domain[2]
    => ret.raised = "ValueError" /\ "domain" \notin DOMAIN ret

\* A PiecewiseChebyshevBasis was asked for with an inverted domain, and none
\* was made.
C15_Witness ==
    /\ Done("PiecewiseChebyshevBasis")
    /\ call.domain[1] > call.domain[2]
    /\ ret.raised = "ValueError"

\* The pairs of one pitch that offend, among those the mask of bounce_points
\* holds valid: inverted, overlapping the next or the one before, or with |B|
\* at the midpoint above the level.
OffendingPairs(c, valid, bp1, bp2, pitch) ==
    LET W == Len(bp1)
        inverted(j) == valid[j] /\ bp1[j] > bp2[j]
        overlaps(j) == j < W /\ valid[j] /\ valid[j + 1] /\ bp1[j + 1] < bp2[j]
        exceeds(j) == valid[j]
                      /\ eval1d(c, (bp1[j] + bp2[j]) \div 2)
                            > Den * PitchInv(pitch) + Eps
    IN  { << bp1[j], bp2[j] >> :
            j \in { i \in 1..W : \/ inverted(i) \/ exceeds(i) \/ overlaps(i)
                                 \/ (i > 1 /\ overlaps(i - 1)) } }

\* The offending pairs of pitch p of the checked batch
Offending(p) ==
    OffendingPairs(cheb, ValidBP(p), call.bp1[p], call.bp2[p], call.pitch[p])

\* The pitches of the checked batch with an offending pair
OffendingPitches == { p \in 1..Len(call.pitch) : Offending(p) # { } }

\* C16: check_bounce_points raises whenever the bounce points of some pitch
\* hold an inversion, an overlap or a midpoint above the level, having
\* printed the offending pairs of the first such pitch; it returns without
\* raising when there is none.
C16_CheckRaisesOnViolation ==
    Done("check_bounce_points") =>
        IF OffendingPitches = { }
        THEN ret.raised = "" /\ ret.printed = << >>
        ELSE /\ ret.raised = "AssertionError"
             /\ ret.msg # ""
             /\ Offending(Min(OffendingPitches))
                    \subseteq { ret.printed[i] : i \in 1..Len(ret.printed) }

\* check_bounce_points raised for two wells that overlap, with no inversion.
C16_Witness ==
    /\ Done("check_bounce_points")
    /\ ret.raised = "AssertionError"
    /\ ret.msg = "Detected discontinuity."
    /\ Len(ret.printed) >= 2

\* The assertions of check_bounce_points
CheckMessages ==
    { "Bounce points have an inversion.", "Detected discontinuity.",
      "Detected |B| > 1/pitch in well." }

\* C17: with check not set integrate and bounce_integrate raise nothing and
\* return an array of values, whatever the bounce points are; with check set
\* bounce_integrate raises exactly when the bounce points it computed offend,
\* and then before any quadrature.
C17_ChecksOnlyWhenRequested ==
    /\ Done("bounce_integrate") /\ call.weight = None /\ ~check =>
        ret.raised = "" /\ "result" \in DOMAIN ret
    /\ Done("bounce_integrate") /\ call.weight = None /\ check =>
        LET bp == bounce_points(cheb, call.pitch, call.num_well)
            offends == \E p \in 1..Len(call.pitch) :
                          OffendingPairs(cheb, ValidBP(p), bp.bp1[p], bp.bp2[p],
                                         call.pitch[p]) # { }
        IN  /\ (ret.raised = "AssertionError" /\ ret.msg \in CheckMessages) <=> offends
            /\ offends => "result" \notin DOMAIN ret
    /\ Done("integrate") => ret.raised = "" /\ "result" \in DOMAIN ret

\* The level 1 / pitch is that of a local extremum of |B|: a piece has a
\* double root in its domain, where the derivative is 0.
DegeneratePitch(c, pitch) ==
    \E x \in 1..Len(c) :
        LET d == _subtract(c[x], PitchInv(pitch))
        IN  Disc(d) = 0 /\ Abs(chebroots(d)[1].re) <= One

\* The same for a level and the splines of a Bounce1D.
DegenerateLevel(B1, k) ==
    \E i \in 1..Len(B1) : \E t \in 0..dz :
        polyeval(B1[i], t) = k /\ polyeval(polyder(B1[i]), t) = 0

\* C18: a call whose pitches are all degenerate raises no error, and every
\* pair of equal bounce points that it returns adds exactly 0 to the result.
C18_DegeneratePitchHarmless ==
    /\ Done("bounce_integrate") /\ call.weight = None
       /\ (\A p \in 1..Len(call.pitch) : DegeneratePitch(cheb, call.pitch[p]))
       => /\ ret.raised = ""
          /\ \A p \in 1..Len(call.pitch) : \A j \in 1..Len(ret.result[p]) :
                LET bp == BouncePointsOne(cheb, call.pitch[p], call.num_well)
                IN  bp.bp1[j] = bp.bp2[j] => ret.result[p][j] = 0
    /\ Done("integrate")
       /\ (\A p \in 1..Len(call.pitch_inv) : DegenerateLevel(B, call.pitch_inv[p]))
       => /\ ret.raised = ""
          /\ \A p \in 1..Len(call.pitch_inv) : \A j \in 1..Len(ret.result[p]) :
                LET z == points(B, << call.pitch_inv[p] >>, call.num_well)
                IN  z.z1[1][j] = z.z2[1][j] => ret.result[p][j] = 0

\* The calls on a constructed object.
CallOps == { "bounce_points", "check_bounce_points", "bounce_integrate",
             "points", "integrate" }

\* C19: a call of points, integrate or a check leaves the stored series,
\* splines and flag as they were and the bounce points given to a check as
\* they were given; what integrate and points return is computed from the
\* object and the arguments of that call alone, whatever was called before.
C19_CallsLeaveObjectAlone ==
    [][ call'.op \in CallOps =>
          /\ UNCHANGED << cheb, check, B >>
          /\ call'.op = "check_bounce_points" =>
                call'.bp1 = ret.bp1 /\ call'.bp2 = ret.bp2 /\ call'.pitch = call.pitch
          /\ call'.op = "points" =>
                ret' = points(B', call'.pitch_inv, call'.num_well)
          /\ call'.op = "integrate" =>
                ret' = integrate(B', call'.pitch_inv, call'.integrand, call'.weight,
                                 call'.num_well, call'.batch) ]_vars

\* integrate returned the integral over a well that it found.
C19_Witness ==
    /\ Done("integrate")
    /\ ret.raised = ""
    /\ \E p \in 1..Len(call.pitch_inv) : \E j \in 1..Len(ret.result[p]) :
          ValidZ(p)[j] /\ ret.result[p][j] # 0

\* What the call c returns when it runs alone on the splines B1.
Alone(B1, c) ==
    IF c.op = "points" THEN points(B1, c.pitch_inv, c.num_well)
    ELSE integrate(B1, c.pitch_inv, c.integrand, c.weight, c.num_well, c.batch)

\* C20: whatever the other threads did meanwhile, a call of points or
\* integrate that has finished returned what it returns when run alone, and a
\* thread inside integrate holds the bounce points of its own call.
C20_ConcurrentCallsIndependent ==
    \A t \in Threads :
        /\ threads[t].pc = "done" => threads[t].ret = Alone(B, threads[t].call)
        /\ threads[t].pc = "quadrature" =>
              threads[t].z = points(B, threads[t].call.pitch_inv, threads[t].call.num_well)

\* An integrate finished with the integral over a well, after another thread
\* computed other bounce points in the middle of it.
C20_Witness ==
    \E t \in Threads, u \in Threads :
        /\ t # u
        /\ threads[t].pc = "done"
        /\ threads[t].call.op = "integrate"
        /\ threads[t].overlap
        /\ threads[t].ret.raised = ""
        /\ \E j \in 1..Len(threads[t].ret.result[1]) : threads[t].ret.result[1][j] # 0
        /\ threads[u].pc \in { "quadrature", "done" }
        /\ threads[u].z # threads[t].z

\* C21: the splines of a field line of N knots are N: those of the N - 1
\* intervals and then the first one once more, and as many derivatives.
C21_PeriodicSegment ==
    /\ Done("Bounce1D") /\ Constructed /\ StrictlyIncreasing(call.zeta) =>
          /\ Len(ret.B) = Len(call.zeta)
          /\ ret.B[Len(ret.B)] = ret.B[1]
          /\ Len(ret._dB_dz) = Len(call.zeta)
    /\ Done("bounce_integral") /\ Constructed =>
          /\ Len(ret.coef) = Len(ret.zeta)
          /\ ret.coef[Len(ret.coef)] = ret.coef[1]
          /\ SubSeq(ret.coef, 1, Len(ret.zeta) - 1)
                = CubicHermiteSpline(ret.zeta, ret.data.absB, ret.data.absB_z, TRUE).c
          /\ Len(ret.der) = Len(ret.zeta)

\* C22: with a weight, every well of the result is the integral without the
\* weight times the weight at the bottom of the well, and the result is 0
\* where there is no well.
C22_WeightTimesIntegral ==
    /\ Done("bounce_integrate") /\ call.weight # None =>
          LET plain == bounce_integrate(cheb, check, call.pitch, call.integrand,
                                        None, call.num_well)
          IN  plain.raised = "" =>
                /\ ret.raised = ""
                /\ \A p \in 1..Len(call.pitch) : \A j \in 1..Len(plain.result[p]) :
                      ret.result[p][j] = plain.result[p][j] * call.weight[1]
    /\ Done("integrate") /\ call.weight # None =>
          LET plain == integrate(B, call.pitch_inv, call.integrand, None,
                                 call.num_well, call.batch)
          IN  /\ ret.raised = plain.raised
              /\ plain.raised = "" =>
                    \A p \in 1..Len(call.pitch_inv) : \A j \in 1..Len(plain.result[p]) :
                        /\ ret.result[p][j] = plain.result[p][j] * call.weight[1]
                        /\ ~ValidZ(p)[j] => ret.result[p][j] = 0

\* C23: the callable that bounce_average(eq, rho, alpha, resolution) integrates
\* with has as many knots along the field line as the resolution given, up
\* to the default zeta_max.
C23_AverageUsesResolution ==
    Done("bounce_average") =>
        /\ Len(ret.bi.zeta) = call.resolution[1]
        /\ ret.bi.zeta[Len(ret.bi.zeta)] = zeta_max_default

\* The length of the knot interval of spline i of the callable bi, the last
\* spline being the first once more.
IntervalOf(bi, i) ==
    IF i < Len(bi.zeta) THEN bi.zeta[i + 1] - bi.zeta[i] ELSE bi.zeta[2] - bi.zeta[1]

\* The coordinates along the field line of the roots of the series c at the
\* level k that are real to within Eps and in the normalized domain.
AcceptedRoots(c, k) ==
    { bijection_from_disc(r.re, domain[1], domain[2]) + (x - 1) * (domain[2] - domain[1])
        : << x, r >> \in { << x, r >> \in
              UNION { { << x, chebroots(_subtract(c[x], k))[i] >> : i \in 1..(N(c) - 1) }
                        : x \in 1..Len(c) } :
              Abs(r.im) <= Eps /\ Abs(r.re) <= One } }

\* C25: a bounce point is a root whose imaginary part is within eps of zero
\* and whose real part is in the domain of its piece; no integral is taken
\* from or to any other root.
C25_OnlyRealRootsInDomain ==
    /\ Done("bounce_points") =>
          \A p \in 1..Len(call.pitch) : \A j \in 1..Len(ret.bp1[p]) :
              ValidBP(p)[j] =>
                  /\ ret.bp1[p][j] \in AcceptedRoots(cheb, PitchInv(call.pitch[p]))
                  /\ ret.bp2[p][j] \in AcceptedRoots(cheb, PitchInv(call.pitch[p]))
    /\ Done("_bounce_integral") =>
          \A i \in 1..Len(ret.F) : \A j \in 1..2 :
              ret.F[i][j] # 0 =>
                  LET bp == cubic_poly_roots(call.bi.coef[i], call.k)
                  IN  \A m \in { j, j + 1 } :
                          /\ bp[m].im = 0
                          /\ bp[m].re >= 0
                          /\ bp[m].re <= IntervalOf(call.bi, i)

RECURSIVE Pow(_, _)
Pow(x, n) == IF n = 0 THEN 1 ELSE x * Pow(x, n - 1)

\* The integral from a to b of the polynomial c: the primitive with c[i] over
\* n + 1 - i at the power n + 1 - i, n = Len(c).
ExactIntegral(c, a, b) ==
    LET n == Len(c)
        term(i) == Quot(c[i], n + 1 - i) * (Pow(b, n + 1 - i) - Pow(a, n + 1 - i))
    IN  term(1) + term(2) + term(3) + term(4)

\* C28: the value reported between two points a and b of a spline is the
\* integral of its cubic from a to b, and so is every integral that
\* _bounce_integral keeps.
C28_SplineIntegralExact ==
    /\ Done("integral") => ret.integral = ExactIntegral(call.y, call.a, call.b)
    /\ Done("_bounce_integral") =>
          \A i \in 1..Len(ret.F) : \A j \in 1..2 :
              LET bp == cubic_poly_roots(call.bi.coef[i], call.k)
                  w == BounceIntegralPiece(call.bi.coef[i], call.bi.der[i],
                                           << 0, 0, 0, 12 >>, call.k)[j]
              IN  call.name = "1" /\ w.is_well /\ w.is_real =>
                      ret.F[i][j] = ExactIntegral(<< 0, 0, 0, 12 >>, bp[j].re, bp[j + 1].re)

\* The positions in the flattened candidates of the entries, in order.
Entries(flat) ==
    flatnonzero([i \in 1..Len(flat) |-> flat[i].is_intersect /\ flat[i].is_decreasing], 1)

\* The positions of the exits from position e on, in order.
ExitsFrom(flat, e) ==
    flatnonzero([i \in 1..Len(flat) |->
                    i >= e /\ flat[i].is_intersect /\ flat[i].is_increasing], 1)

\* C24: the valid well at index j is from the j-th entry candidate to the
\* nearest exit candidate that follows it in the flattened sequence, a root
\* that is entry and exit at once counted as following itself or not; no
\* exit before the first entry is the exit of the first well.
C24_EntryPairsWithNextExit ==
    Done("bounce_points") =>
        \A p \in 1..Len(call.pitch) : \A j \in 1..Len(ret.bp1[p]) :
            LET flat == FlatIntersect(cheb, PitchInv(call.pitch[p]))
                ent == Entries(flat)
            IN  ValidBP(p)[j] =>
                    /\ j <= Len(ent)
                    /\ ret.bp1[p][j] = flat[ent[j]].y
                    /\ \/ /\ ExitsFrom(flat, ent[j]) # << >>
                          /\ ret.bp2[p][j] = flat[ExitsFrom(flat, ent[j])[1]].y
                       \/ /\ ExitsFrom(flat, ent[j] + 1) # << >>
                          /\ ret.bp2[p][j] = flat[ExitsFrom(flat, ent[j] + 1)[1]].y

\* The derivative of piece c with respect to y, at Y on the grid of the
\* normalized domain, times One: a1 T1' + a2 T2' = a1 + 4 a2 y.
ChebDerivative(c, Y) == One * c[2] + 4 * c[3] * Y

\* The derivative, at the flattened coordinate z, of piece x of the series.
DerivativeAt(x, z) ==
    ChebDerivative(cheb[x], bijection_to_disc(z - (x - 1) * dz, domain[1], domain[2]))

\* The pieces whose domain holds the flattened coordinate z.
PiecesAt(z) ==
    { x \in 1..Len(cheb) : z - (x - 1) * dz \in domain[1]..domain[2] }

\* C26: an accepted root is an entry candidate exactly when the derivative of
\* its piece there is <= 0 and an exit candidate only when it is >= 0; every
\* valid z1 returned has a derivative <= 0 and every valid z2 one >= 0, in
\* one of the pieces that hold the coordinate.
C26_ClassifiedByDerivative ==
    Done("bounce_points") =>
        \A p \in 1..Len(call.pitch) :
            LET flat == FlatIntersect(cheb, PitchInv(call.pitch[p]))
                piece(i) == (i - 1) \div (N(cheb) - 1) + 1
            IN  /\ \A i \in 1..Len(flat) :
                      flat[i].is_intersect =>
                          /\ flat[i].is_decreasing
                                <=> DerivativeAt(piece(i), flat[i].y) <= 0
                          /\ flat[i].is_increasing
                                => DerivativeAt(piece(i), flat[i].y) >= 0
                /\ \A j \in 1..Len(ret.bp1[p]) :
                      ValidBP(p)[j] =>
                          /\ \E x \in PiecesAt(ret.bp1[p][j]) :
                                DerivativeAt(x, ret.bp1[p][j]) <= 0
                          /\ \E x \in PiecesAt(ret.bp2[p][j]) :
                                DerivativeAt(x, ret.bp2[p][j]) >= 0

\* sum_k w_k g'(x_k) ((z2 - z1) / 2) f_k, with g the identity
WidthSum(z1, z2, f) ==
    dot([k \in 1..Len(quad) |-> ((z2 - z1) \div 2) * f[k]], quad_w)

\* C27: the integral of each well is the sum over the nodes of
\* w_k g'(x_k) ((z2 - z1) / 2) integrand(node_k); a well with z1 = z2 gives
\* exactly 0 whatever the integrand is at the node.
C27_QuadratureScalesWithWidth ==
    /\ Done("bounce_integrate") /\ ret.raised = "" =>
          \A p \in 1..Len(call.pitch) :
              \A bp \in { BouncePointsOne(cheb, call.pitch[p], call.num_well) } :
                  \A j \in 1..Len(ret.result[p]) :
                      /\ ret.result[p][j]
                            = WidthSum(bp.bp1[j], bp.bp2[j],
                                  [k \in 1..Len(quad) |->
                                      Integrand(call.integrand,
                                          eval1d(cheb, bijection_from_disc(
                                              quad[k].x, bp.bp1[j], bp.bp2[j])),
                                          call.pitch[p])])
                      /\ bp.bp1[j] = bp.bp2[j] => ret.result[p][j] = 0
    /\ Done("integrate") /\ ret.raised = "" /\ call.weight = None =>
          \A p \in 1..Len(call.pitch_inv) :
              \A z \in { points(B, << call.pitch_inv[p] >>, call.num_well) } :
                  \A j \in 1..Len(ret.result[p]) :
                      /\ ret.result[p][j]
                            = WidthSum(z.z1[1][j], z.z2[1][j],
                                  [k \in 1..Len(quad) |->
                                      Integrand(call.integrand,
                                          SplineVal(B, bijection_from_disc(
                                              quad[k].x, z.z1[1][j], z.z2[1][j])),
                                          call.pitch_inv[p])])
                      /\ z.z1[1][j] = z.z2[1][j] => ret.result[p][j] = 0

\* An index where take_mask found an entry and no exit, or an exit and no
\* entry.
Lone(raw, sentinel, j) ==
    (raw.bp1[j] > sentinel) # (raw.bp2[j] > sentinel)

\* C29: an entry with no exit at its well index, and an exit with no entry at
\* its index, give no well: both boundaries returned at that index are the
\* padding value 0, and no boundary returned anywhere is the sentinel.
C29_LoneBoundaryDropped ==
    /\ Done("bounce_points") =>
        \A p \in 1..Len(call.pitch) : \A j \in 1..Len(ret.bp1[p]) :
            /\ Lone(RawBP(p), Sentinel, j) =>
                  ret.bp1[p][j] = 0 /\ ret.bp2[p][j] = 0
            /\ ret.bp1[p][j] # Sentinel /\ ret.bp2[p][j] # Sentinel
    /\ Done("points") =>
        \A p \in 1..Len(call.pitch_inv) : \A j \in 1..Len(ret.z1[p]) :
            /\ Lone(RawZ(p), Knots(B)[1] - 1, j) =>
                  ret.z1[p][j] = 0 /\ ret.z2[p][j] = 0
            /\ ret.z1[p][j] # Knots(B)[1] - 1 /\ ret.z2[p][j] # Knots(B)[1] - 1

\* bounce_points returned a valid well and, at a later index, dropped an entry
\* past the start of the domain that had no exit.
C29_Witness ==
    /\ Done("bounce_points")
    /\ \E p \in 1..Len(call.pitch) : \E j, j2 \in 1..Len(ret.bp1[p]) :
        /\ j < j2
        /\ ValidBP(p)[j]
        /\ ret.bp1[p][j] < ret.bp2[p][j]
        /\ RawBP(p).bp1[j2] > 0
        /\ RawBP(p).bp2[j2] = Sentinel
        /\ ret.bp1[p][j2] = 0 /\ ret.bp2[p][j2] = 0

\* _isomorphism_to_C2 of the coordinate that _isomorphism_to_C1 gives to the
\* local coordinate y in row x (from 0) of an array of M rows.
RoundTrip(M, x, y) ==
    _isomorphism_to_C2(_isomorphism_to_C1([r \in 1..M |-> << y >>])[x + 1][1])

\* C30: for every piece x in 0..M-1 and every local coordinate y of the
\* domain, its end points included, the flattened coordinate of (x, y) is
\* mapped back to (x, y); the piece that eval1d reads at an accepted root is
\* the piece that produced the root, and is one of the pieces 0..M-1.
C30_FlattenRoundTrip ==
    Done("bounce_points") =>
        /\ \A x \in 0..(Len(cheb) - 1) : \A y \in domain[1]..domain[2] :
              RoundTrip(Len(cheb), x, y) = [x_idx |-> x, y_val |-> y]
        /\ \A p \in 1..Len(call.pitch) :
              \A flat \in { FlatIntersect(cheb, PitchInv(call.pitch[p])) } :
                  \A i \in 1..Len(flat) :
                      flat[i].is_intersect =>
                          /\ _isomorphism_to_C2(flat[i].y).x_idx
                                = (i - 1) \div (N(cheb) - 1)
                          /\ _isomorphism_to_C2(flat[i].y).x_idx \in 0..(Len(cheb) - 1)

====
